---- MODULE Spec2Model ----
(***************************************************************************)
(* Model of build_env.py (rules_pyvenv): the manifest reader, the          *)
(* environment builder, the linker, the console-script generator and the   *)
(* post-install runner, as run by main().                                  *)
(*                                                                         *)
(* Strings the program slices or splits (manifest paths, import names,     *)
(* EXTRA_PIP_COMMANDS) are sequences of one-character strings, so that     *)
(* startswith, slicing and split are computed as the code computes them.   *)
(***************************************************************************)
EXTENDS Integers, Sequences, FiniteSets, TLC

VARIABLES
    pc,             \* position in main / in the script-generator runs
    depsSet,        \* "DEPS_FILE" in os.environ
    argc,           \* len(sys.argv)
    imports,        \* deps["imports"] (local of read_deps_file)
    depfile,        \* the manifest entry of the current loop iteration
    mapped,         \* env_path of the current iteration (line 85)
    nread,          \* manifest entries consumed so far
    files,          \* the list read_deps_file builds; main's files
    envExists,      \* the destination environment has been (re)created
    lib,            \* children of env_path/lib
    site_packages_path, \* result of find_site_packages
    dirs,           \* directories under site-packages (as part sequences)
    links,          \* symlinks under site-packages: [at, to]
    idx,            \* index of the Linker loop
    bin,            \* env_path/bin: script name -> file
    entry_points,   \* entrypoints.get_group_all("console_scripts", ...)
    bin0,           \* bin before the first generator run
    bin1,           \* bin after the first generator run
    extra_commands, \* os.environ.get("EXTRA_PIP_COMMANDS")
    ran,            \* pip commands the shell executed, with their status
    returncode,     \* ret.returncode of subprocess.run
    exitCode,       \* exit status of the process (-1 while running)
    events          \* the stages that have started, in order

vars == <<pc, depsSet, argc, imports, depfile, mapped, nread, files, envExists, lib,
          site_packages_path, dirs, links, idx, bin, entry_points, bin0, bin1,
          extra_commands, ran, returncode, exitCode, events>>

----------------------------------------------------------------------------
\* Bounds of the model.

MaxImports == 2
MaxFiles == 3
MaxEntryPoints == 2
MaxCmdLen == 3

----------------------------------------------------------------------------
\* String helpers (Python str operations on character sequences).

StartsWith(s, prefix) ==
    /\ Len(s) >= Len(prefix)
    /\ SubSeq(s, 1, Len(prefix)) = prefix

\* s[n:]
SliceFrom(s, n) == SubSeq(s, n + 1, Len(s))

RECURSIVE SeqsUpTo(_, _)
SeqsUpTo(S, n) ==
    IF n = 0 THEN {<<>>}
    ELSE LET shorter == SeqsUpTo(S, n - 1)
         IN  shorter \cup {Append(s, x) : s \in {t \in shorter : Len(t) = n - 1}, x \in S}

\* str.split(sep) for a one-character separator: empty pieces are kept.
RECURSIVE SplitAcc(_, _, _, _)
SplitAcc(s, sep, cur, acc) ==
    IF s = <<>> THEN Append(acc, cur)
    ELSE IF Head(s) = sep THEN SplitAcc(Tail(s), sep, <<>>, Append(acc, cur))
    ELSE SplitAcc(Tail(s), sep, Append(cur, Head(s)), acc)

Split(s, sep) == SplitAcc(s, sep, <<>>, <<>>)

\* pathlib parts of a relative path: split on "/", dropping empty and "." parts.
Parts(s) ==
    LET raw == Split(s, "/")
    IN  SelectSeq(raw, LAMBDA c : c # <<>> /\ c # <<".">>)

\* Path.resolve() of a path relative to the working directory: the working
\* directory's parts followed by the path's, each ".." removing one part.
\* (The source tree is taken to hold no symlinks of its own.)
CwdParts == << <<"r">>, <<"w">> >>
DotDot == <<".", ".">>

RECURSIVE Normalize(_, _)
Normalize(parts, acc) ==
    IF parts = <<>> THEN acc
    ELSE IF Head(parts) = DotDot
         THEN Normalize(Tail(parts), IF acc = <<>> THEN acc ELSE SubSeq(acc, 1, Len(acc) - 1))
         ELSE Normalize(Tail(parts), Append(acc, Head(parts)))

Resolve(path) == Normalize(Parts(path), CwdParts)

----------------------------------------------------------------------------
\* Manifest reader.

DotDotSlash == <<".", ".", "/">>

\* f"../{imp}/"
ImportPrefix(imp) == DotDotSlash \o imp \o <<"/">>

NoMatch == [found |-> FALSE, value |-> <<>>]
Found(s) == [found |-> TRUE, value |-> s]

\* get_env_path's loop over imports: the first import whose prefix matches.
RECURSIVE FirstImportMatch(_, _)
FirstImportMatch(path, imps) ==
    IF imps = <<>> THEN NoMatch
    ELSE IF StartsWith(path, ImportPrefix(Head(imps)))
         THEN Found(SliceFrom(path, Len(ImportPrefix(Head(imps)))))
         ELSE FirstImportMatch(path, Tail(imps))

RECURSIVE LastImportMatch(_, _)
LastImportMatch(path, imps) ==
    IF imps = <<>> THEN NoMatch
    ELSE LET rest == LastImportMatch(path, Tail(imps))
         IN  IF rest.found THEN rest
             ELSE IF StartsWith(path, ImportPrefix(Head(imps)))
                  THEN Found(SliceFrom(path, Len(ImportPrefix(Head(imps)))))
                  ELSE NoMatch

\* Optional[str]: found = FALSE is None.
get_env_path_last(path, imps) ==
    IF ~StartsWith(path, DotDotSlash) THEN Found(path)
    ELSE LastImportMatch(path, imps)

get_env_path_keep(path, imps) ==
    IF ~StartsWith(path, DotDotSlash) THEN Found(path)
    ELSE LET m == FirstImportMatch(path, imps)
         IN  IF m.found THEN m ELSE Found(path)

get_env_path(path, imps) ==
    IF ~StartsWith(path, DotDotSlash) THEN Found(path)
    ELSE FirstImportMatch(path, imps)

is_external(file_) == StartsWith(file_, DotDotSlash)

\* `not env_path`: None and the empty string are both falsy.
Falsy(opt) == ~opt.found \/ opt.value = <<>>

EnvFile(path, env_path) == [path |-> path, env_path |-> env_path]

\* One iteration of read_deps_file's loop: the list after the entry.
ReadOne(fs, entry, target) ==
    IF Falsy(target) THEN fs
    ELSE IF is_external(entry.p) THEN Append(fs, EnvFile(entry.p, target.value))
    ELSE IF entry.t = "G" THEN Append(fs, EnvFile(entry.p, target.value))
    ELSE fs

----------------------------------------------------------------------------
\* Inputs: the manifests, environments and variables the runs are checked on.

ImportNames == { <<"a">>, <<"a", "/", "b">> }

WorkspacePaths == { <<>>, <<"c">>, <<"b", "/", "c">> }

ExternalPaths ==
    { DotDotSlash \o <<"a", "/">>,
      DotDotSlash \o <<"a", "/", "c">>,
      DotDotSlash \o <<"a", "/", "b", "/">>,
      DotDotSlash \o <<"a", "/", "b", "/", "c">>,
      DotDotSlash \o <<"b", "/", "c">>,
      DotDotSlash \o <<"a", "b", "/", "c">>,
      DotDotSlash \o <<"a">> }

ManifestPaths == WorkspacePaths \cup ExternalPaths

TypeTags == {"G", "E", "S"}

ManifestEntries == [t : TypeTags, p : ManifestPaths]

NoEntry == [t |-> "none", p |-> <<>>]

ImportLists == SeqsUpTo(ImportNames, MaxImports)

----------------------------------------------------------------------------
\* The environment's lib directory and find_site_packages.

PythonPrefix == <<"p", "y", "t", "h", "o", "n">>

LibChild(name, sp) == [name |-> name, has_site_packages |-> sp]

PythonDir(sp) == LibChild(PythonPrefix \o <<"3">>, sp)
OtherDir(sp) == LibChild(<<"p", "k", "g">>, sp)

\* What venv.EnvBuilder.create leaves in lib.
VenvLib == { PythonDir(TRUE) }

LibLayouts ==
    { VenvLib, {PythonDir(TRUE), OtherDir(TRUE)}, {PythonDir(FALSE), OtherDir(TRUE)}, {} }

NoSitePackages == <<>>

\* The children find_site_packages can return (iterdir gives them in any order).
SitePackagesCandidates(l) ==
    { c \in l : StartsWith(c.name, PythonPrefix) /\ c.has_site_packages }

----------------------------------------------------------------------------
\* Console scripts.

EnvPath == "venv"

ScriptNames == {"pip", "tool"}

EntryPoint(name, module, object) ==
    [name |-> name, module_name |-> module, object_name |-> object]

EntryPointSet ==
    { EntryPoint("pip", "pip.cli", "main"),
      EntryPoint("tool", "tool.cli", "main"),
      EntryPoint("tool", "tool.alt", "run") }

EntryPointLists == SeqsUpTo(EntryPointSet, MaxEntryPoints)

\* The text console_script renders: the shebang's interpreter, the module the
\* function is imported from, and the function called.
console_script(env_path, module, func) ==
    [interp |-> <<env_path, "bin/python3">>, from |-> module, call |-> func]

HandEdited == [interp |-> <<"/usr", "bin/python3">>, from |-> "tool.cli", call |-> "main"]

Mode755 == 493

NoFile == [exists |-> FALSE, text |-> console_script("", "", ""), mode |-> 0]
File(text, mode) == [exists |-> TRUE, text |-> text, mode |-> mode]

BinFiles ==
    {NoFile} \cup
    { File(t, m) : t \in {HandEdited, console_script(EnvPath, "tool.alt", "run"),
                          console_script(EnvPath, "pip.cli", "main")},
                   m \in {420, Mode755} }

\* bin after venv creation with pip bundled: pip's own script is there.
FreshBin ==
    [n \in ScriptNames |->
        IF n = "pip" THEN File(console_script(EnvPath, "pip.cli", "main"), Mode755)
        ELSE NoFile]

ScriptExistsNever(b, name) == FALSE

\* script.exists()
ScriptExists(b, name) == b[name].exists

\* write_text followed by chmod(0o755)
WriteScript(b, ep) ==
    [b EXCEPT ![ep.name] =
        File(console_script(EnvPath, ep.module_name, ep.object_name), Mode755)]

\* The loop of generate_console_scripts over the entry points, in order.
RECURSIVE GenerateLoop(_, _)
GenerateLoop(b, eps) ==
    IF eps = <<>> THEN b
    ELSE IF ScriptExists(b, Head(eps).name) THEN GenerateLoop(b, Tail(eps))
    ELSE GenerateLoop(WriteScript(b, Head(eps)), Tail(eps))

----------------------------------------------------------------------------
\* Post-install commands.

CmdChars == {"i", "f", "\n"}

Unset == [set |-> FALSE, val |-> <<>>]
SetTo(s) == [set |-> TRUE, val |-> s]

ExtraValues == {Unset} \cup { SetTo(s) : s \in SeqsUpTo(CmdChars, MaxCmdLen) }

TruthyAlways(v) == TRUE

\* `if extra_commands:` -- None and "" are falsy.
Truthy(v) == v.set /\ v.val # <<>>

\* Exit status of `pip --no-input <cmd>`: a command holding "f" stands for one
\* that pip fails on.
PipExit(cmd) == IF \E i \in 1..Len(cmd) : cmd[i] = "f" THEN 2 ELSE 0

\* lines of run_additional_commands: the activate line, then per command an
\* echo line and the pip line.
RECURSIVE CommandLines(_)
CommandLines(commands) ==
    IF commands = <<>> THEN <<>>
    ELSE << [kind |-> "echo", cmd |-> Head(commands)],
            [kind |-> "pip", cmd |-> Head(commands)] >> \o CommandLines(Tail(commands))

ShellLines(commands) == << [kind |-> "activate", cmd |-> <<>>] >> \o CommandLines(commands)

LineStatus(line) == IF line.kind = "pip" THEN PipExit(line.cmd) ELSE 0

\* The shell runs the ";"-joined lines one after the other; its exit status is
\* the status of the last one.
ShellStatus(lines) == LineStatus(lines[Len(lines)])

ShellRan(lines) ==
    LET pips == SelectSeq(lines, LAMBDA l : l.kind = "pip")
    IN  [i \in 1..Len(pips) |-> [cmd |-> pips[i].cmd, status |-> LineStatus(pips[i])]]

----------------------------------------------------------------------------
\* The Linker's filesystem operations under site-packages.  A path is the
\* sequence of its parts below site-packages; <<>> is site-packages itself.

Parent(at) == SubSeq(at, 1, Len(at) - 1)

Prefixes(at) == { SubSeq(at, 1, k) : k \in 1..Len(at) }

IsLink(ls, at) == \E l \in ls : l.at = at

PathExists(ds, ls, at) == at \in ds \/ IsLink(ls, at)

\* mkdir(parents=True, exist_ok=True) raises when a part of the chain exists
\* and is not a directory (a link made by an earlier iteration points at a file).
MkdirFails(ls, parent) == \E q \in Prefixes(parent) : IsLink(ls, q)

Mkdir(ds, parent) == ds \cup Prefixes(parent)

----------------------------------------------------------------------------
\* main()

EmptyBin == [n \in ScriptNames |-> NoFile]

Init ==
    /\ pc = "main"
    /\ depsSet \in BOOLEAN
    /\ argc \in 1..3
    /\ imports = <<>>
    /\ depfile = NoEntry
    /\ mapped = NoMatch
    /\ nread = 0
    /\ files = <<>>
    /\ envExists = FALSE
    /\ lib = {}
    /\ site_packages_path = NoSitePackages
    /\ dirs = {}
    /\ links = {}
    /\ idx = 0
    /\ bin = EmptyBin
    /\ entry_points = <<>>
    /\ bin0 = EmptyBin
    /\ bin1 = EmptyBin
    /\ extra_commands = Unset
    /\ ran = <<>>
    /\ returncode = -1
    /\ exitCode = -1
    /\ events = <<>>

\* An exception leaves main: the interpreter exits with status 1.
Raise == pc' = "failed" /\ exitCode' = 1

DepsFileMissingNever == FALSE

\* "DEPS_FILE" not in os.environ
DepsFileMissing == ~depsSet

\* Lines 132-135: the two configuration checks.
CheckConfig ==
    /\ pc = "main"
    /\ IF DepsFileMissing THEN Raise
       ELSE IF argc # 2 THEN Raise
       ELSE pc' = "read_open" /\ exitCode' = exitCode
    /\ UNCHANGED <<depsSet, argc, imports, depfile, mapped, nread, files, envExists, lib,
                   site_packages_path, dirs, links, idx, bin, entry_points, bin0,
                   bin1, extra_commands, ran, returncode, events>>

\* read_deps_file, lines 74-78: open and parse the manifest, take its imports.
LoadDeps ==
    /\ pc = "read_open"
    /\ events' = Append(events, "read")
    /\ \E parsed \in BOOLEAN :
          IF parsed
          THEN /\ \E imps \in ImportLists : imports' = imps
               /\ pc' = "read_loop"
               /\ exitCode' = exitCode
          ELSE /\ Raise
               /\ imports' = imports
    /\ UNCHANGED <<depsSet, argc, depfile, mapped, nread, files, envExists, lib,
                   site_packages_path, dirs, links, idx, bin, entry_points, bin0,
                   bin1, extra_commands, ran, returncode>>

\* read_deps_file, lines 79-92: one iteration over deps["files"].
ReadEntry ==
    /\ pc = "read_loop"
    /\ nread < MaxFiles
    /\ \E entry \in ManifestEntries :
          /\ depfile' = entry
          /\ mapped' = get_env_path(entry.p, imports)
          /\ files' = ReadOne(files, entry, mapped')
    /\ nread' = nread + 1
    /\ UNCHANGED <<pc, depsSet, argc, imports, envExists, lib, site_packages_path,
                   dirs, links, idx, bin, entry_points, bin0, bin1, extra_commands,
                   ran, returncode, exitCode, events>>

\* read_deps_file returns (line 94); its locals are gone.
ReadReturn ==
    /\ pc = "read_loop"
    /\ pc' = "build"
    /\ imports' = <<>>
    /\ depfile' = NoEntry
    /\ mapped' = NoMatch
    /\ nread' = 0
    /\ UNCHANGED <<depsSet, argc, files, envExists, lib, site_packages_path, dirs,
                   links, idx, bin, entry_points, bin0, bin1, extra_commands, ran,
                   returncode, exitCode, events>>

\* Lines 141-147: venv.EnvBuilder(clear=True, symlinks=True, with_pip=True).create
CreateEnv ==
    /\ pc = "build"
    /\ events' = Append(events, "build")
    /\ envExists' = TRUE
    /\ lib' = VenvLib
    /\ dirs' = {<<>>}
    /\ links' = {}
    /\ bin' = FreshBin
    /\ pc' = "find"
    /\ UNCHANGED <<depsSet, argc, imports, depfile, mapped, nread, files, site_packages_path,
                   idx, entry_points, bin0, bin1, extra_commands, ran, returncode,
                   exitCode>>

\* Line 149: find_site_packages(env_path)
FindSitePackages ==
    /\ pc = "find"
    /\ events' = Append(events, "link")
    /\ IF SitePackagesCandidates(lib) = {}
       THEN /\ Raise
            /\ UNCHANGED <<site_packages_path, idx>>
       ELSE /\ \E c \in SitePackagesCandidates(lib) : site_packages_path' = c.name
            /\ idx' = 1
            /\ pc' = "link"
            /\ exitCode' = exitCode
    /\ UNCHANGED <<depsSet, argc, imports, depfile, mapped, nread, files, envExists, lib,
                   dirs, links, bin, entry_points, bin0, bin1, extra_commands, ran,
                   returncode>>

\* Lines 150-156: one iteration of the Linker loop.
LinkFile ==
    /\ pc = "link"
    /\ idx <= Len(files)
    /\ LET file == files[idx]
           site_path == Parts(file.env_path)
       IN  IF MkdirFails(links, Parent(site_path))
           THEN /\ Raise
                /\ UNCHANGED <<dirs, links, idx>>
           ELSE /\ dirs' = Mkdir(dirs, Parent(site_path))
                /\ IF PathExists(dirs', links, site_path)
                   THEN /\ Raise
                        /\ UNCHANGED <<links, idx>>
                   ELSE /\ links' = links \cup {[at |-> site_path, to |-> Resolve(file.path)]}
                        /\ idx' = idx + 1
                        /\ UNCHANGED <<pc, exitCode>>
    /\ UNCHANGED <<depsSet, argc, imports, depfile, mapped, nread, files, envExists, lib,
                   site_packages_path, bin, entry_points, bin0, bin1, extra_commands,
                   ran, returncode, events>>

\* Lines 97-107 as called from line 158: generate_console_scripts(env_path)
GenerateConsoleScripts ==
    /\ pc = "link"
    /\ idx > Len(files)
    /\ events' = Append(events, "scripts")
    /\ IF SitePackagesCandidates(lib) = {}
       THEN /\ Raise
            /\ UNCHANGED <<entry_points, bin>>
       ELSE /\ \E eps \in EntryPointLists :
                  /\ entry_points' = eps
                  /\ bin' = GenerateLoop(bin, eps)
            /\ pc' = "post_check"
            /\ exitCode' = exitCode
    /\ UNCHANGED <<depsSet, argc, imports, depfile, mapped, nread, files, envExists, lib,
                   site_packages_path, dirs, links, idx, bin0, bin1, extra_commands,
                   ran, returncode>>

\* Lines 160-161: read EXTRA_PIP_COMMANDS and test it.
ReadExtraCommands ==
    /\ pc = "post_check"
    /\ \E v \in ExtraValues :
          /\ extra_commands' = v
          /\ IF Truthy(v) THEN pc' = "post" /\ exitCode' = exitCode
             ELSE pc' = "done" /\ exitCode' = 0
    /\ UNCHANGED <<depsSet, argc, imports, depfile, mapped, nread, files, envExists, lib,
                   site_packages_path, dirs, links, idx, bin, entry_points, bin0,
                   bin1, ran, returncode, events>>

\* Lines 110-128 as called from line 162: run_additional_commands
RunAdditionalCommands ==
    /\ pc = "post"
    /\ events' = Append(events, "post")
    /\ LET commands == Split(extra_commands.val, "\n")
           lines == ShellLines(commands)
       IN  /\ ran' = ShellRan(lines)
           /\ returncode' = ShellStatus(lines)
           /\ IF returncode' # 0 THEN Raise
              ELSE pc' = "done" /\ exitCode' = 0
    /\ UNCHANGED <<depsSet, argc, imports, depfile, mapped, nread, files, envExists, lib,
                   site_packages_path, dirs, links, idx, bin, entry_points, bin0,
                   bin1, extra_commands>>

Next ==
    \/ CheckConfig
    \/ LoadDeps
    \/ ReadEntry
    \/ ReadReturn
    \/ CreateEnv
    \/ FindSitePackages
    \/ LinkFile
    \/ GenerateConsoleScripts
    \/ ReadExtraCommands
    \/ RunAdditionalCommands

Spec == Init /\ [][Next]_vars

----------------------------------------------------------------------------
\* The Script Generator run twice against one environment.

ScriptsInit ==
    /\ pc = "gen_first"
    /\ bin \in [ScriptNames -> BinFiles]
    /\ bin0 = bin
    /\ bin1 = bin
    /\ entry_points \in EntryPointLists
    /\ lib \in LibLayouts
    /\ envExists = TRUE
    /\ depsSet = TRUE
    /\ argc = 2
    /\ imports = <<>>
    /\ depfile = NoEntry
    /\ mapped = NoMatch
    /\ nread = 0
    /\ files = <<>>
    /\ site_packages_path = NoSitePackages
    /\ dirs = {<<>>}
    /\ links = {}
    /\ idx = 0
    /\ extra_commands = Unset
    /\ ran = <<>>
    /\ returncode = -1
    /\ exitCode = -1
    /\ events = <<>>

\* generate_console_scripts(env_path) on the environment; `first` tells the runs apart.
RunGenerator(first) ==
    /\ pc = IF first THEN "gen_first" ELSE "gen_second"
    /\ IF SitePackagesCandidates(lib) = {}
       THEN /\ pc' = "gen_failed"
            /\ UNCHANGED <<site_packages_path, bin, bin1>>
       ELSE /\ \E c \in SitePackagesCandidates(lib) : site_packages_path' = c.name
            /\ bin' = GenerateLoop(bin, entry_points)
            /\ bin1' = IF first THEN bin' ELSE bin1
            /\ pc' = IF first THEN "gen_second" ELSE "gen_done"
    /\ UNCHANGED <<depsSet, argc, imports, depfile, mapped, nread, files, envExists, lib,
                   dirs, links, idx, entry_points, bin0, extra_commands, ran,
                   returncode, exitCode, events>>

FirstRun == RunGenerator(TRUE)

SecondRun == RunGenerator(FALSE)

ScriptsNext == FirstRun \/ SecondRun

ScriptsSpec == ScriptsInit /\ [][ScriptsNext]_vars

----------------------------------------------------------------------------
\* Properties.

\* The iteration of read_deps_file's loop that has just consumed depfile.
Reading == pc = "read_loop" /\ depfile # NoEntry

\* q is an initial segment of s.
HasPrefix(s, q) == Len(q) <= Len(s) /\ \A i \in 1..Len(q) : s[i] = q[i]

\* The path leaves the workspace: it begins with "../".
Escapes(path) == HasPrefix(path, <<".", ".", "/">>)

\* The indices of the imports whose "../{imp}/" is a prefix of the path.
MatchingImports(path, imps) ==
    { i \in 1..Len(imps) : HasPrefix(path, <<".", ".", "/">> \o imps[i] \o <<"/">>) }

MinOf(S) == CHOOSE x \in S : \A y \in S : x <= y

\* The path with "../{imps[i]}/" stripped.
Stripped(path, imps, i) == SubSeq(path, Len(imps[i]) + 5, Len(path))

Reverse(q) == [i \in 1..Len(q) |-> q[Len(q) + 1 - i]]

\* C1: a manifest entry whose path does not start with "../" (the empty path
\* included) is appended with target path = path if its type tag is "G", and
\* is left out otherwise.
C1_WorkspaceEntryKeptIffGenerated ==
    [][ (nread' = nread + 1 /\ ~Escapes(depfile'.p))
          => IF depfile'.t = "G"
             THEN files' = Append(files, [path |-> depfile'.p, env_path |-> depfile'.p])
             ELSE files' = files ]_vars

\* C2: a manifest entry whose path is "../" + imp + "/" + suffix for exactly one
\* entry imp of imports (the empty suffix included) is always appended, with
\* target path = suffix and source path = path, whatever its type tag.
C2_ExternalEntryAlwaysKept ==
    [][ (nread' = nread + 1 /\ Cardinality(MatchingImports(depfile'.p, imports)) = 1)
          => LET i == MinOf(MatchingImports(depfile'.p, imports))
             IN  files' = Append(files, [path |-> depfile'.p,
                                         env_path |-> Stripped(depfile'.p, imports, i)]) ]_vars

\* C3: a manifest entry whose path starts with "../" and matches no import is
\* mapped to None and never appears in the result, whatever its type tag.
C3_UnmatchedExternalExcluded ==
    pc = "read_loop" =>
        /\ (depfile # NoEntry /\ Escapes(depfile.p)
              /\ MatchingImports(depfile.p, imports) = {})
             => (~mapped.found /\ \A i \in 1..Len(files) : files[i].path # depfile.p)
        /\ \A i \in 1..Len(files) :
              Escapes(files[i].path)
                 => MatchingImports(files[i].path, imports) # {}

C3_Witness ==
    /\ Reading
    /\ nread = MaxFiles
    /\ imports # <<>>
    /\ depfile.t = "G"
    /\ Escapes(depfile.p)
    /\ MatchingImports(depfile.p, imports) = {}
    /\ ~mapped.found
    /\ Len(files) = MaxFiles - 1

\* C4: when an external path matches several imports, get_env_path strips the
\* prefix of the first matching import in list order; the later ones are not
\* used, so the order of imports decides the target path.
C4_FirstMatchingImportWins ==
    (Reading /\ MatchingImports(depfile.p, imports) # {})
        => /\ mapped.found
           /\ mapped.value = Stripped(depfile.p, imports, MinOf(MatchingImports(depfile.p, imports)))

C4_Witness ==
    /\ Reading
    /\ Cardinality(MatchingImports(depfile.p, imports)) = 2
    /\ imports = << <<"a">>, <<"a", "/", "b">> >>
    /\ depfile.p = <<".", ".", "/", "a", "/", "b", "/", "c">>
    /\ mapped.value = <<"b", "/", "c">>
    /\ get_env_path(depfile.p, Reverse(imports)).value = <<"c">>
    /\ files # <<>> /\ files[Len(files)].env_path = <<"b", "/", "c">>

\* What a run has done to the filesystem and to other processes.
NothingMutated ==
    /\ ~envExists
    /\ lib = {}
    /\ dirs = {}
    /\ links = {}
    /\ bin = EmptyBin
    /\ ran = <<>>
    /\ returncode = -1

\* C5: with DEPS_FILE unset, main raises at once, whatever the argument count:
\* nothing is created, cleared, linked, written or run, and the exit is non-zero.
C5_MissingDepsFileFatalBeforeMutation ==
    ~depsSet =>
        /\ NothingMutated
        /\ events = <<>>
        /\ pc \in {"main", "failed"}
        /\ pc = "failed" => exitCode = 1

C5_Witness ==
    /\ ~depsSet
    /\ argc = 2
    /\ pc = "failed"
    /\ exitCode = 1

\* C6: generate_console_scripts never overwrites a script that exists (content
\* and mode are kept), and a second run against the same environment changes
\* nothing.
C6_GeneratorIdempotent ==
    /\ pc \in {"gen_second", "gen_done"}
          => \A n \in ScriptNames : bin0[n].exists => bin[n] = bin0[n]
    /\ pc = "gen_done" => bin = bin1

C6_Witness ==
    /\ pc = "gen_done"
    /\ bin0["pip"] = [exists |-> TRUE, text |-> HandEdited, mode |-> 420]
    /\ ~bin0["tool"].exists
    /\ Len(entry_points) = 2
    /\ entry_points[1].name = "tool"
    /\ entry_points[2].name = "tool"
    /\ entry_points[1] # entry_points[2]
    /\ bin["tool"].exists
    /\ bin["tool"].text.from = entry_points[1].module_name
    /\ bin["tool"].mode = 493

\* C7: whichever command of EXTRA_PIP_COMMANDS exits non-zero, the run aborts
\* with a non-zero exit.
C7_FailedCommandIsFatal ==
    (\E i \in 1..Len(ran) : ran[i].status # 0) => (pc = "failed" /\ exitCode # 0)

\* C8: read_deps_file never returns two EnvFiles with the same env_path.
C8_EnvPathsUnique ==
    \A i, j \in 1..Len(files) : i # j => files[i].env_path # files[j].env_path

\* The Linker loop is over and did not raise.
Linked == pc \in {"post_check", "post", "done"} \/ (pc = "link" /\ idx > Len(files))

LinkerRaised == pc = "failed" /\ Len(events) = 3 /\ site_packages_path # NoSitePackages

\* C9: the Linker loop completes for every list of EnvFiles, and then each
\* EnvFile has a symlink at site-packages/<env_path> pointing at the resolved
\* source path, below existing directories.
C9_LinkRoundTrip ==
    /\ ~LinkerRaised
    /\ Linked =>
          \A i \in 1..Len(files) :
              /\ [at |-> Parts(files[i].env_path), to |-> Resolve(files[i].path)] \in links
              /\ Prefixes(Parent(Parts(files[i].env_path))) \subseteq dirs

StageOrder == <<"read", "build", "link", "scripts", "post">>

Started(stage) == \E i \in 1..Len(events) : events[i] = stage

\* C10: the stages start in the order read, build, link, scripts, post, each at
\* most once; the manifest is read before the environment is created, links
\* are made only in the created environment, scripts are generated only after
\* the last link, the post-install shell runs only after script generation and
\* only for a set, non-empty EXTRA_PIP_COMMANDS, and a failed run has done
\* nothing of the stages after the failing one.
C10_StagesInOrder ==
    /\ Len(events) <= Len(StageOrder)
    /\ events = SubSeq(StageOrder, 1, Len(events))
    /\ pc \in {"read_open", "read_loop"} => NothingMutated
    /\ envExists => Started("read") /\ Started("build")
    /\ (links # {} \/ dirs \notin {{}, {<<>>}}) => envExists /\ Started("link")
    /\ ~Started("scripts") => bin \in {EmptyBin, FreshBin} /\ entry_points = <<>>
    /\ Started("scripts") => Started("link") /\ idx = Len(files) + 1 /\ Cardinality(links) = Len(files)
    /\ ~Started("post") => ran = <<>> /\ returncode = -1
    /\ Started("post") => Started("scripts") /\ extra_commands.set /\ extra_commands.val # <<>>
    /\ pc = "done" => Len(events) >= 4 /\ exitCode = 0
    /\ pc = "failed" => exitCode = 1

C10_Witness ==
    /\ pc = "done"
    /\ events = StageOrder
    /\ Len(files) = 2
    /\ Cardinality(links) = 2
    /\ bin # FreshBin
    /\ Len(ran) = 2

====
